---- MODULE Spec2Model ----
(***************************************************************************)
(* Model of the NewRelic output plugin (plugins/outputs/newrelic).         *)
(*                                                                         *)
(* Strings that the code transforms character by character (metric names,  *)
(* tag keys and values, field keys, metric paths, host names) are          *)
(* sequences of one-character strings.  Strings the code only stores and   *)
(* compares (URL, licence key, GUID, error formats) are TLA+ strings.      *)
(***************************************************************************)
EXTENDS Integers, Sequences, FiniteSets, TLC

VARIABLES
    clients,     \* the NewRelic instances: URL, License, GUID, client
    request,     \* the package-level `var request NRRequest`
    connected,   \* observer: the instances whose Connect has returned nil
    last,        \* observer: the last Connect/Write call and what it did
    metrics,     \* BuildComponents: the batch being aggregated
    idx,         \* BuildComponents: position of the range loop
    aggregator,  \* BuildComponents: the local map name -> Aggregator
    serialized,  \* observer: what serialize returned for each sample so far
    temp,        \* BuildComponents: the returned slice
    pc,          \* BuildComponents: "idle" | "loop" | "done"
    str,         \* sanitization: the input string
    once,        \* sanitization: sanitizedChars.Replace(str)
    twice,       \* sanitization: sanitizedChars.Replace(once)
    spc          \* sanitization: "idle" | "start" | "once" | "twice"

vars == <<clients, request, connected, last, metrics, idx, aggregator, serialized, temp,
          pc, str, once, twice, spc>>

clientVars == <<clients, request, connected, last>>
buildVars == <<metrics, idx, aggregator, serialized, temp, pc>>
sanitizeVars == <<str, once, twice, spc>>

----------------------------------------------------------------------------
(* Bounds of the model.                                                    *)

\* longest input string given to the sanitizer
MaxStrLen == 3
\* longest batch given to BuildComponents
MaxBatch == 3
\* largest finite float64 of the model; beyond it arithmetic gives +Inf/-Inf
MaxFloat == 40

----------------------------------------------------------------------------
(* Strings.                                                                *)

RECURSIVE Join(_, _)
\* strings.Join(parts, sep)
Join(parts, sep) ==
    IF parts = <<>> THEN <<>>
    ELSE IF Len(parts) = 1 THEN parts[1]
    ELSE parts[1] \o sep \o Join(Tail(parts), sep)

\* byte values of the characters the model's tag keys are made of
Code(c) ==
    CASE c = "1" -> 49
      [] c = "2" -> 50
      [] c = "h" -> 104
      [] c = "o" -> 111
      [] c = "s" -> 115
      [] c = "t" -> 116
      [] OTHER -> 0

RECURSIVE StrLess(_, _)
\* a < b for Go strings: byte-wise lexicographic order
StrLess(a, b) ==
    IF b = <<>> THEN FALSE
    ELSE IF a = <<>> THEN TRUE
    ELSE IF Code(Head(a)) # Code(Head(b)) THEN Code(Head(a)) < Code(Head(b))
    ELSE StrLess(Tail(a), Tail(b))

\* sort.Strings over a set of distinct keys: the one ascending arrangement
SortStrings(keys) ==
    CHOOSE s \in [1..Cardinality(keys) -> keys] :
        /\ \A k \in keys : \E i \in DOMAIN s : s[i] = k
        /\ \A i, j \in DOMAIN s : i < j => StrLess(s[i], s[j])

----------------------------------------------------------------------------
(* Sanitization: var sanitizedChars = strings.NewReplacer(...).            *)
(* Every old string is one byte, so the replacer maps each byte of the     *)
(* input on its own, in one pass, and never rescans what it has written.   *)

ReplaceChar_KeepDot(c) ==
    CASE c = "/"  -> <<"_">>
      [] c = " "  -> <<>>
      [] c = "%"  -> <<"P", "e", "r", "c", "e", "n", "t">>
      [] c = ":"  -> <<"_">>
      [] c = "\\" -> <<"_">>
      [] c = "["  -> <<>>
      [] c = "]"  -> <<>>
      [] c = "#"  -> <<>>
      [] c = "_"  -> <<>>
      [] OTHER    -> <<c>>

ReplaceChar(c) ==
    CASE c = "/"  -> <<"_">>
      [] c = " "  -> <<>>
      [] c = "%"  -> <<"P", "e", "r", "c", "e", "n", "t">>
      [] c = ":"  -> <<"_">>
      [] c = "\\" -> <<"_">>
      [] c = "["  -> <<>>
      [] c = "]"  -> <<>>
      [] c = "."  -> <<>>
      [] c = "#"  -> <<>>
      [] c = "_"  -> <<>>
      [] OTHER    -> <<c>>

RECURSIVE Replace(_)
\* sanitizedChars.Replace(s)
Replace(s) == IF s = <<>> THEN <<>> ELSE ReplaceChar(Head(s)) \o Replace(Tail(s))

\* the characters the sanitizer is given in the sanitization runs
SanitizeAlphabet == {"a", "/", " ", "%", ":", "\\", "[", "]", ".", "#", "_"}

RECURSIVE StringsUpTo(_)
StringsUpTo(n) ==
    IF n = 0 THEN {<<>>}
    ELSE LET shorter == StringsUpTo(n - 1)
         IN shorter \cup {Append(s, c) : s \in {t \in shorter : Len(t) = n - 1},
                                         c \in SanitizeAlphabet}

Chars(s) == {s[i] : i \in DOMAIN s}

----------------------------------------------------------------------------
(* float64 arithmetic.  A float is an integer of -MaxFloat..MaxFloat, or   *)
(* PosInf / NegInf once a result leaves that range.  The inputs are finite *)
(* and an accumulator overflows in one direction only, so NaN (Inf - Inf)  *)
(* does not arise.                                                         *)

PosInf == MaxFloat + 1
NegInf == 0 - (MaxFloat + 1)

Saturate(x) == IF x > MaxFloat THEN PosInf ELSE IF x < 0 - MaxFloat THEN NegInf ELSE x

IsFinite(x) == x # PosInf /\ x # NegInf

FAdd(a, b) ==
    IF a = PosInf \/ b = PosInf THEN PosInf
    ELSE IF a = NegInf \/ b = NegInf THEN NegInf
    ELSE Saturate(a + b)

FMul(a, b) ==
    IF a = 0 \/ b = 0 THEN 0
    ELSE IF IsFinite(a) /\ IsFinite(b) THEN Saturate(a * b)
    ELSE IF (a > 0) = (b > 0) THEN PosInf ELSE NegInf

----------------------------------------------------------------------------
(* The constants of newrelic.go.                                           *)

newrelic_api == "https://platform-api.newrelic.com/platform/v1/metrics"
default_guid == "com.influxdata.telegraf"
prefix == <<"C", "o", "m", "p", "o", "n", "e", "n", "t", "/">>
Slash == <<"/">>
HostKey == <<"h", "o", "s", "t">>
ROOT == <<"R", "O", "O", "T">>

----------------------------------------------------------------------------
(* telegraf.Metric: [name, tags, fields].  A field value is [t, v]: its Go *)
(* type and its value (a bool as 1/0, a string as 0).                      *)

SupportedTypes == {"int", "int32", "int64", "float64", "bool"}

\* the type switch of serialize: the value as float64
ToFloat(f) ==
    IF f.t = "bool" THEN (IF f.v = 1 THEN 1 ELSE 0) ELSE f.v

\* NRMetric{Total: value, Count: 1, Min: value, Max: value, SumOfSquares: value * value}
NewMetric(value) ==
    [Count |-> 1, Total |-> value, Min |-> value, Max |-> value,
     SumOfSquares |-> FMul(value, value)]

\* the zero NRMetric a map lookup yields for a missing key
ZeroMetric == [Count |-> 0, Total |-> 0, Min |-> 0, Max |-> 0, SumOfSquares |-> 0]

\* buildTags: the values of the tags other than host, "/" as ROOT and the
\* others sanitized, joined with "/" in the order of the sorted keys
BuildTags(tags) ==
    LET keys == SortStrings(DOMAIN tags \ {HostKey})
        tag_value(k) == IF tags[k] = Slash THEN ROOT ELSE Replace(tags[k])
    IN Join([i \in DOMAIN keys |-> tag_value(keys[i])], Slash)

\* the map key serialize builds for field k of metric m
MetricPath(m, k) ==
    LET tags == BuildTags(m.tags)
        parts == <<Replace(m.name)>>
                 \o (IF tags # <<>> THEN <<tags>> ELSE <<>>)
                 \o <<Replace(k)>>
    IN prefix \o Join(parts, Slash)

SupportedKeys(m) == {k \in DOMAIN m.fields : m.fields[k].t \in SupportedTypes}

\* serialize: the possible results.  The loop ranges over a Go map, whose
\* order is unspecified: when two field keys give the same path, the one
\* visited last is kept, and it may be either.
Serialize(m) ==
    LET paths == {MetricPath(m, k) : k \in SupportedKeys(m)}
        picks == {g \in [paths -> SupportedKeys(m)] :
                     \A p \in paths : MetricPath(m, g[p]) = p}
    IN {[p \in paths |-> NewMetric(ToFloat(m.fields[g[p]]))] : g \in picks}

----------------------------------------------------------------------------
(* BuildComponents.  aggregator: name -> [Tags, Component].                *)

\* equalsTags
EqualsTags(lookupTable, search) ==
    \E name \in DOMAIN lookupTable :
        /\ search.name = name
        /\ BuildTags(search.tags) = lookupTable[name].Tags

\* the body of the "add metrics values" loop for one key
MergeMetric(old, k, v) ==
    LET exists == k \in DOMAIN old
        t == IF exists THEN old[k] ELSE ZeroMetric
    IN [Count |-> t.Count + 1,
        Total |-> FAdd(t.Total, v.Total),
        SumOfSquares |-> FAdd(t.SumOfSquares, v.SumOfSquares),
        Max |-> IF ~exists \/ v.Total > t.Max THEN v.Total ELSE t.Max,
        Min |-> IF ~exists \/ v.Total < t.Min THEN v.Total ELSE t.Min]

WithMetrics(agg, name, ms) ==
    [agg EXCEPT ![name] = [@ EXCEPT !.Component = [@ EXCEPT !.Metrics = ms]]]

\* name is in the aggregator and equalsTags holds: add the metric's values
AddMetricValues(agg, m, vals) ==
    LET old == agg[m.name].Component.Metrics
    IN WithMetrics(agg, m.name,
           [k \in DOMAIN old \cup DOMAIN vals |->
               IF k \in DOMAIN vals THEN MergeMetric(old, k, vals[k]) ELSE old[k]])

AddMetricsToComponent_Fresh(agg, m, vals) ==
    WithMetrics(agg, m.name, vals)

\* name is in the aggregator and equalsTags fails: add the metrics to the
\* component, each assigned as serialized
AddMetricsToComponent(agg, m, vals) ==
    LET old == agg[m.name].Component.Metrics
    IN WithMetrics(agg, m.name,
           [k \in DOMAIN old \cup DOMAIN vals |->
               IF k \in DOMAIN vals THEN vals[k] ELSE old[k]])

\* name is not in the aggregator: a new component
NewComponent(agg, m, vals, guid, agentHost) ==
    LET host == IF HostKey \in DOMAIN m.tags THEN m.tags[HostKey] ELSE agentHost
        c == [Name |-> host, Duration |-> 60, Metrics |-> vals, GUID |-> guid]
        entry == [Tags |-> BuildTags(m.tags), Component |-> c]
    IN [n \in DOMAIN agg \cup {m.name} |-> IF n = m.name THEN entry ELSE agg[n]]

\* one iteration of the range loop over the batch
LoopBody(agg, m, vals, guid, agentHost) ==
    IF m.name \in DOMAIN agg
    THEN IF EqualsTags(agg, m)
         THEN AddMetricValues(agg, m, vals)
         ELSE AddMetricsToComponent(agg, m, vals)
    ELSE NewComponent(agg, m, vals, guid, agentHost)

\* the closing loop: the components of the aggregator, in the unspecified
\* order of a range over a Go map
Components(agg) ==
    LET n == Cardinality(DOMAIN agg)
        orders == {f \in [1..n -> DOMAIN agg] :
                      \A name \in DOMAIN agg : \E i \in 1..n : f[i] = name}
    IN {[i \in 1..n |-> agg[f[i]].Component] : f \in orders}

RECURSIVE Aggregate(_, _, _, _)
\* the aggregators the range loop can end with
Aggregate(agg, ms, guid, agentHost) ==
    IF ms = <<>> THEN {agg}
    ELSE UNION {Aggregate(LoopBody(agg, Head(ms), vals, guid, agentHost),
                          Tail(ms), guid, agentHost) :
                   vals \in Serialize(Head(ms))}

\* n.BuildComponents(&metrics): the slices it can return
BuildComponents(guid, agentHost, ms) ==
    UNION {Components(agg) : agg \in Aggregate(<<>>, ms, guid, agentHost)}

----------------------------------------------------------------------------
(* The samples the model aggregates: the tests' m1..m5 in short, with a    *)
(* host tag, a "/" tag value, two tags whose keys sort against the order   *)
(* they are written in, an unsupported field type, a name and two field    *)
(* keys that differ only by "_", and the value 7, which stands for a       *)
(* finite float64 such as 1e200 whose square is +Inf (7 * 7 > MaxFloat).   *)

Str_m1 == <<"m", "1">>
Str_m2 == <<"m", "2">>
Str_m_1 == <<"m", "_", "1">>
Str_t1 == <<"t", "1">>
Str_t2 == <<"t", "2">>
Str_v == <<"v">>
Str_w == <<"w">>
Str_v_ == <<"v", "_">>
Hostname == <<"h", "1">>
OtherHost == <<"h", "2">>

Float(x) == [t |-> "float64", v |-> x]
Int64(x) == [t |-> "int64", v |-> x]
Bool(b) == [t |-> "bool", v |-> IF b THEN 1 ELSE 0]
String == [t |-> "string", v |-> 0]

Sample(name, tags, fields) == [name |-> name, tags |-> tags, fields |-> fields]

SamplePool ==
    { Sample(Str_m1, Str_t1 :> <<"a">>, (Str_v :> Float(3)) @@ (Str_w :> Float(4))),
      Sample(Str_m1, Str_t1 :> <<"a">>, Str_v :> Float(2)),
      Sample(Str_m1, Str_t1 :> <<"b">>, Str_v :> Float(0 - 1)),
      Sample(Str_m1, (Str_t2 :> <<"a">>) @@ (Str_t1 :> <<"b">>), Str_v :> Int64(1)),
      Sample(Str_m1, <<>>, Str_v :> Float(7)),
      Sample(Str_m2, (HostKey :> OtherHost) @@ (Str_t2 :> <<"a">>),
             (Str_v :> Bool(TRUE)) @@ (Str_w :> String)),
      Sample(Str_m_1, (Str_t1 :> Slash) @@ (Str_t2 :> <<"b", ".">>),
             (Str_v :> Int64(1)) @@ (Str_v_ :> Int64(2))),
      Sample(Str_m2, Str_t1 :> <<"a">>, Str_v :> Float(2)) }

RECURSIVE BatchesUpTo(_)
BatchesUpTo(n) ==
    IF n = 0 THEN {<<>>}
    ELSE LET shorter == BatchesUpTo(n - 1)
         IN shorter \cup {Append(b, s) : b \in {c \in shorter : Len(c) = n - 1},
                                         s \in SamplePool}

----------------------------------------------------------------------------
(* The client and the package-level request, as far as BuildComponents     *)
(* reads them.                                                             *)

Instances == {1, 2}

NoAgent == [Host |-> <<>>, Version |-> "", PID |-> 0]
ThisAgent == [Host |-> Hostname, Version |-> "1.0.0", PID |-> 42]

\* the zero value of `var request NRRequest`
ZeroRequest == [Agent |-> NoAgent, Components |-> <<>>]

\* error values: the format string of the fmt.Errorf and its arguments
Err(fmt, code, text) == [fmt |-> fmt, code |-> code, text |-> text]
Nil == Err("", 0, "")

NoResponse == [ok |-> FALSE, StatusCode |-> 0,
               body |-> [valid |-> FALSE, error |-> "", status |-> ""]]
NoPost == [url |-> "", license |-> "", body |-> <<>>]
\* a call: the operation, the instance, the batch written, the server's
\* answer, the error returned, the calls of client.Do made, the request
\* POSTed, and the components the package-level request held before the call
NoCall == [op |-> "none", n |-> 0, batch |-> <<>>, net |-> NoResponse,
           err |-> Nil, posts |-> 0, sent |-> NoPost, stale |-> <<>>]

\* a client after a successful Connect, as the tests configure it
ConnectedClient ==
    [URL |-> "http://server", License |-> "dummy", GUID |-> "test.sonica.telegraf",
     client |-> TRUE]

ClientIdle ==
    /\ clients = [n \in Instances |-> ConnectedClient]
    /\ request = [Agent |-> ThisAgent, Components |-> <<>>]
    /\ connected = Instances
    /\ last = NoCall

BuildIdle ==
    /\ metrics = <<>>
    /\ idx = 0
    /\ aggregator = <<>>
    /\ serialized = <<>>
    /\ temp = <<>>
    /\ pc = "idle"

SanitizeIdle ==
    /\ str = <<>>
    /\ once = <<>>
    /\ twice = <<>>
    /\ spc = "idle"

----------------------------------------------------------------------------
(* BuildComponents, one iteration of its loop per step (instance 1).       *)

InitBuild ==
    /\ ClientIdle
    /\ SanitizeIdle
    /\ metrics \in BatchesUpTo(MaxBatch)
    /\ idx = 1
    /\ aggregator = <<>>
    /\ serialized = <<>>
    /\ temp = <<>>
    /\ pc = "loop"

BuildLoop(branch) ==
    /\ pc = "loop"
    /\ idx <= Len(metrics)
    /\ branch
    /\ \E vals \in Serialize(metrics[idx]) :
          /\ aggregator' = LoopBody(aggregator, metrics[idx], vals,
                                    clients[1].GUID, request.Agent.Host)
          /\ serialized' = Append(serialized, vals)
    /\ idx' = idx + 1
    /\ UNCHANGED <<metrics, temp, pc, clientVars, sanitizeVars>>

\* the sample's name is new: a component is created
BuildNew == BuildLoop(metrics[idx].name \notin DOMAIN aggregator)

\* the name is known and its tags equal the aggregator's: values are merged
BuildAdd ==
    BuildLoop(metrics[idx].name \in DOMAIN aggregator
              /\ EqualsTags(aggregator, metrics[idx]))

\* the name is known and its tags differ: values are assigned
BuildAssign ==
    BuildLoop(metrics[idx].name \in DOMAIN aggregator
              /\ ~EqualsTags(aggregator, metrics[idx]))

BuildReturn ==
    /\ pc = "loop"
    /\ idx > Len(metrics)
    /\ temp' \in Components(aggregator)
    /\ pc' = "done"
    /\ UNCHANGED <<metrics, idx, aggregator, serialized, clientVars, sanitizeVars>>

NextBuild == BuildNew \/ BuildAdd \/ BuildAssign \/ BuildReturn

SpecBuild == InitBuild /\ [][NextBuild]_vars

----------------------------------------------------------------------------
(* Sanitization applied to a string, and again to its result.              *)

InitSanitize ==
    /\ ClientIdle
    /\ BuildIdle
    /\ str \in StringsUpTo(MaxStrLen)
    /\ once = <<>>
    /\ twice = <<>>
    /\ spc = "start"

SanitizeOnce ==
    /\ spc = "start"
    /\ once' = Replace(str)
    /\ spc' = "once"
    /\ UNCHANGED <<str, twice, clientVars, buildVars>>

SanitizeTwice ==
    /\ spc = "once"
    /\ twice' = Replace(once)
    /\ spc' = "twice"
    /\ UNCHANGED <<str, once, clientVars, buildVars>>

NextSanitize == SanitizeOnce \/ SanitizeTwice

SpecSanitize == InitSanitize /\ [][NextSanitize]_vars

----------------------------------------------------------------------------
(* Properties of BuildComponents (SpecBuild).                              *)

Range(s) == {s[i] : i \in DOMAIN s}

RECURSIVE Sum(_, _)
\* the integer sum of f[j] over the finite set js
Sum(f, js) ==
    IF js = {} THEN 0
    ELSE LET j == CHOOSE x \in js : TRUE IN f[j] + Sum(f, js \ {j})

\* sample j of the batch has a supported-type field whose path under its
\* name, canonical tag string and sanitized key is p, and its name is name
Contributes(j, name, p) ==
    /\ metrics[j].name = name
    /\ \E k \in SupportedKeys(metrics[j]) : MetricPath(metrics[j], k) = p

Contributors(name, p) == {j \in DOMAIN metrics : Contributes(j, name, p)}

\* the values the samples of the batch contributed to path p of name's component
Contributed(name, p) == {serialized[j][p].Total : j \in Contributors(name, p)}

Built == pc = "done"

\* the returned slice holds the aggregator's components, one per name
ReturnedAll ==
    /\ Len(temp) = Cardinality(DOMAIN aggregator)
    /\ \A name \in DOMAIN aggregator : aggregator[name].Component \in Range(temp)

\* C1: in the returned components, the count of every path equals the number
\* of samples of the batch that contribute a supported-type field to that
\* path (same name, same canonical tag string, same sanitized key), whatever
\* the order of the samples.
C1_CountEqualsContributors ==
    Built =>
        /\ ReturnedAll
        /\ \A name \in DOMAIN aggregator :
             \A p \in DOMAIN aggregator[name].Component.Metrics :
                aggregator[name].Component.Metrics[p].Count
                    = Cardinality(Contributors(name, p))

\* C2: in the returned components, min <= v <= max for every value v that a
\* sample of the batch contributed to the path, and min and max are
\* themselves contributed values.
C2_MinMaxBoundEveryValue ==
    Built =>
        \A name \in DOMAIN aggregator :
           \A p \in DOMAIN aggregator[name].Component.Metrics :
              LET st == aggregator[name].Component.Metrics[p]
              IN /\ \A v \in Contributed(name, p) : st.Min <= v /\ v <= st.Max
                 /\ st.Min \in Contributed(name, p)
                 /\ st.Max \in Contributed(name, p)

\* C3: in the returned components, total is the sum of all the values
\* contributed to the path and sum_of_squares the sum of their squares.
C3_TotalIsSumOfContributed ==
    Built =>
        \A name \in DOMAIN aggregator :
           \A p \in DOMAIN aggregator[name].Component.Metrics :
              LET st == aggregator[name].Component.Metrics[p]
                  js == Contributors(name, p)
                  value == [j \in js |-> serialized[j][p].Total]
                  square == [j \in js |-> value[j] * value[j]]
              IN /\ st.Total = Saturate(Sum(value, js))
                 /\ st.SumOfSquares = Saturate(Sum(square, js))

Names == {metrics[j].name : j \in DOMAIN metrics}
NameTagPairs == {<<metrics[j].name, BuildTags(metrics[j].tags)>> : j \in DOMAIN metrics}

\* C4 as claimed: BuildComponents returns exactly one component per distinct
\* (sample name, canonical tag string) pair of the batch.
C4_OneComponentPerNameAndTags ==
    Built => Len(temp) = Cardinality(NameTagPairs)

\* C4 as amended: BuildComponents returns exactly one component per distinct
\* sample name of the batch, and the component of a name holds the paths of
\* every sample of that name, whatever its tags, and of no other sample.
C4_OneComponentPerName ==
    Built =>
        /\ Len(temp) = Cardinality(Names)
        /\ DOMAIN aggregator = Names
        /\ \A name \in Names :
              /\ aggregator[name].Component \in Range(temp)
              /\ DOMAIN aggregator[name].Component.Metrics
                   = UNION {DOMAIN serialized[j] :
                               j \in {i \in DOMAIN metrics : metrics[i].name = name}}

\* C4 witness: a batch with two names, one of them with two canonical tag
\* strings, has been aggregated into two components
C4_Witness ==
    /\ Built
    /\ Len(temp) = 2
    /\ \E j, k \in DOMAIN metrics :
          /\ metrics[j].name = metrics[k].name
          /\ BuildTags(metrics[j].tags) # BuildTags(metrics[k].tags)
          /\ serialized[j] # <<>>
          /\ serialized[k] # <<>>

----------------------------------------------------------------------------
(* sendData: the JSON of the request, the HTTP exchange, the outcome.      *)

Digits == <<"0", "1", "2", "3", "4", "5", "6", "7", "8", "9">>

RECURSIVE Itoa(_)
\* the decimal digits of n >= 0, as the `json:",string"` option writes it
Itoa(n) == IF n < 10 THEN <<Digits[n + 1]>> ELSE Itoa(n \div 10) \o <<Digits[(n % 10) + 1]>>

\* an optional JSON member: left out when the value is the zero value
OmitEmpty(key, value) == IF value = 0 THEN <<>> ELSE key :> value

\* the JSON object of an NRMetric (min, max, sum_of_squares are omitempty)
MetricJSON(m) ==
    ("count" :> m.Count) @@ ("total" :> m.Total) @@ OmitEmpty("min", m.Min)
    @@ OmitEmpty("max", m.Max) @@ OmitEmpty("sum_of_squares", m.SumOfSquares)

\* the JSON object of an NRComponent (duration is written as a string)
ComponentJSON(c) ==
    [name |-> c.Name, guid |-> c.GUID, duration |-> Itoa(c.Duration),
     metrics |-> [p \in DOMAIN c.Metrics |-> MetricJSON(c.Metrics[p])]]

ComponentsJSON(cs) == [i \in DOMAIN cs |-> ComponentJSON(cs[i])]

\* the JSON object of an NRAgent (pid is omitempty)
AgentJSON(a) == ("host" :> a.Host) @@ ("version" :> a.Version) @@ OmitEmpty("pid", a.PID)

\* ejson.Marshal(request), when it succeeds
Marshal(req) == [agent |-> AgentJSON(req.Agent), components |-> ComponentsJSON(req.Components)]

\* ejson.Marshal fails on a float64 that is +Inf, -Inf or NaN
MarshalOK(req) ==
    \A i \in DOMAIN req.Components :
       \A p \in DOMAIN req.Components[i].Metrics :
          LET m == req.Components[i].Metrics[p]
          IN IsFinite(m.Total) /\ IsFinite(m.Min) /\ IsFinite(m.Max)
             /\ IsFinite(m.SumOfSquares)

\* http.NewRequest fails when the URL does not parse
BadURL == "%zz"
URLParses(u) == u # BadURL

Accepted_2xx(code) == ~(code < 200 \/ code > 299)

\* the status codes that reach the body check
Accepted(code) == ~(code < 200 \/ code > 209)

\* the switch over resp.StatusCode
StatusError(code) ==
    CASE code \in {400, 404, 405} -> Err("Status %d: maybe update agent", code, "")
      [] code = 403 ->
            Err("Authentication error (no license key header, or invalid license key).", 0, "")
      [] code = 413 ->
            Err("Request entity too large: Too many metrics were sent in one request", 0, "")
      [] code \in {500, 502, 503, 504} ->
            Err("Status %d: Newrelic API not available", code, "")
      [] OTHER -> Err("received bad status code: %d\n", code, "")

BodyError_StatusOnly(body) ==
    IF ~body.valid THEN Err("received bad response data: %s %s\n", 0, "")
    ELSE IF body.status # "ok" THEN Err("NewRelic Status not ok: %s\n", 0, body.status)
    ELSE Nil

\* ejson.Unmarshal of the body into NRResponse and the two checks on it
BodyError(body) ==
    IF ~body.valid THEN Err("received bad response data: %s %s\n", 0, "")
    ELSE IF body.error # "" THEN Err("NewRelic error: %s\n", 0, body.error)
    ELSE IF body.status # "ok" THEN Err("NewRelic Status not ok: %s\n", 0, body.status)
    ELSE Nil

\* what the exchange with the server gives once client.Do has been called
Exchange(net) ==
    IF ~net.ok THEN Err("error POSTing metrics, %s\n", 0, "")
    ELSE IF ~Accepted(net.StatusCode) THEN StatusError(net.StatusCode)
    ELSE BodyError(net.body)

SendData_Retry(c, req, net) ==
    IF ~MarshalOK(req)
    THEN [err |-> Err("unable to marshal request data: %s\n", 0, ""),
          posts |-> 0, sent |-> NoPost]
    ELSE IF ~URLParses(c.URL)
    THEN [err |-> Err("unable to create http.Request: %s\n", 0, ""),
          posts |-> 0, sent |-> NoPost]
    ELSE [err |-> Exchange(net),
          posts |-> IF Exchange(net) = Nil THEN 1 ELSE 2,
          sent |-> [url |-> c.URL, license |-> c.License, body |-> Marshal(req)]]

\* sendData(n, request): the error returned, the calls of client.Do made,
\* and the request POSTed
SendData(c, req, net) ==
    IF ~MarshalOK(req)
    THEN [err |-> Err("unable to marshal request data: %s\n", 0, ""),
          posts |-> 0, sent |-> NoPost]
    ELSE IF ~URLParses(c.URL)
    THEN [err |-> Err("unable to create http.Request: %s\n", 0, ""),
          posts |-> 0, sent |-> NoPost]
    ELSE [err |-> Exchange(net),
          posts |-> 1,
          sent |-> [url |-> c.URL, license |-> c.License, body |-> Marshal(req)]]

----------------------------------------------------------------------------
(* Connect and Write.                                                      *)

ConnectResult_GuidFirst(c, req, hostOk) ==
    LET c1 == [c EXCEPT !.URL = IF @ = "" THEN newrelic_api ELSE @,
                        !.GUID = IF @ = "" THEN default_guid ELSE @]
        c3 == [c1 EXCEPT !.client = TRUE]
    IN IF c.License = ""
       THEN [client |-> c1, request |-> req,
             err |-> Err("Licence key is a required field for newrelic output", 0, "")]
       ELSE IF ~hostOk
       THEN [client |-> c3, request |-> req,
             err |-> Err("FAILED to get hostname: %s, %s", 0, "")]
       ELSE [client |-> c3, request |-> [req EXCEPT !.Agent = ThisAgent], err |-> Nil]

\* n.Connect(): the client and the package-level request it leaves, and the
\* error it returns; hostOk is whether os.Hostname() succeeds
ConnectResult(c, req, hostOk) ==
    LET c1 == [c EXCEPT !.URL = IF @ = "" THEN newrelic_api ELSE @]
        c2 == [c1 EXCEPT !.GUID = IF @ = "" THEN default_guid ELSE @]
        c3 == [c2 EXCEPT !.client = TRUE]
    IN IF c.License = ""
       THEN [client |-> c1, request |-> req,
             err |-> Err("Licence key is a required field for newrelic output", 0, "")]
       ELSE IF ~hostOk
       THEN [client |-> c3, request |-> req,
             err |-> Err("FAILED to get hostname: %s, %s", 0, "")]
       ELSE [client |-> c3, request |-> [req EXCEPT !.Agent = ThisAgent], err |-> Nil]

Connect(n) ==
    /\ \E hostOk \in BOOLEAN :
          LET r == ConnectResult(clients[n], request, hostOk)
          IN /\ clients' = [clients EXCEPT ![n] = r.client]
             /\ request' = r.request
             /\ connected' = IF r.err = Nil THEN connected \cup {n} ELSE connected
             /\ last' = [NoCall EXCEPT !.op = "Connect", !.n = n, !.err = r.err,
                                       !.stale = request.Components]
    /\ UNCHANGED <<buildVars, sanitizeVars>>

SetComponents_Append(req, components) == [req EXCEPT !.Components = @ \o components]

\* request.Components = components
SetComponents(req, components) == [req EXCEPT !.Components = components]

\* n.Write(metrics) on an instance whose Connect has succeeded, with the
\* batch drawn from batches and the server's answer from responses
Write(n, batches, responses) ==
    /\ n \in connected
    /\ \E ms \in batches :
          IF Len(ms) = 0
          THEN /\ last' = [NoCall EXCEPT !.op = "Write", !.n = n,
                                         !.stale = request.Components]
               /\ UNCHANGED request
          ELSE \E components \in BuildComponents(clients[n].GUID, request.Agent.Host, ms),
                  net \in responses :
                  LET req == SetComponents(request, components)
                      r == SendData(clients[n], req, net)
                  IN /\ request' = req
                     /\ last' = [op |-> "Write", n |-> n, batch |-> ms,
                                 net |-> IF r.posts > 0 THEN net ELSE NoResponse,
                                 err |-> r.err, posts |-> r.posts, sent |-> r.sent,
                                 stale |-> request.Components]
    /\ UNCHANGED <<clients, connected, buildVars, sanitizeVars>>

----------------------------------------------------------------------------
(* The life of the plugin: instances configured, connected and written to. *)

Config(url, license, guid) == [URL |-> url, License |-> license, GUID |-> guid, client |-> FALSE]

\* the configurations an instance starts with: nothing set, only the licence
\* set, the tests' configuration, one with a URL that does not parse, and
\* one without licence
Configs ==
    { Config("", "", ""),
      Config("", "dummy", ""),
      Config("http://server", "dummy", "test.sonica.telegraf"),
      Config(BadURL, "dummy", "test.sonica.telegraf"),
      Config("http://server", "", "test.sonica.telegraf") }

Response(code, body) == [ok |-> TRUE, StatusCode |-> code, body |-> body]
Body(error, status) == [valid |-> TRUE, error |-> error, status |-> status]
Malformed == [valid |-> FALSE, error |-> "", status |-> ""]
TransportError == NoResponse

\* the batches written in the life of the plugin
WriteBatches ==
    { <<>>,
      <<Sample(Str_m1, Str_t1 :> <<"a">>, Str_v :> Float(3))>>,
      <<Sample(Str_m1, Str_t1 :> <<"a">>, Str_v :> Float(3)),
        Sample(Str_m2, HostKey :> OtherHost, Str_v :> Float(0)),
        Sample(Str_m1, Str_t1 :> <<"a">>, Str_v :> Float(2))>>,
      <<Sample(Str_m1, <<>>, Str_v :> Float(7))>> }

\* the answers of the server in the life of the plugin
WriteResponses ==
    { TransportError,
      Response(200, Body("", "ok")),
      Response(200, Body("force error", "")),
      Response(401, Malformed) }

Init ==
    /\ clients \in [Instances -> Configs]
    /\ request = ZeroRequest
    /\ connected = {}
    /\ last = NoCall
    /\ BuildIdle
    /\ SanitizeIdle

Next == \E n \in Instances : Connect(n) \/ Write(n, WriteBatches, WriteResponses)

Spec == Init /\ [][Next]_vars

----------------------------------------------------------------------------
(* sendData against every answer of the server, on connected instances.    *)

StatusCodes == {199, 200, 209, 210, 400, 401, 403, 404, 405, 413, 500, 502, 503, 504}

Bodies ==
    { Malformed, Body("", "ok"), Body("force error", ""), Body("force error", "ok"),
      Body("", "error"), Body("", "") }

AllResponses == {TransportError} \cup {Response(code, body) : code \in StatusCodes, body \in Bodies}

InitSend ==
    /\ ClientIdle
    /\ BuildIdle
    /\ SanitizeIdle

\* the batches sent: one that serializes and one whose sum of squares is +Inf
SendBatches ==
    { <<Sample(Str_m1, Str_t1 :> <<"a">>, Str_v :> Float(3))>>,
      <<Sample(Str_m1, <<>>, Str_v :> Float(7))>> }

NextSend == \E n \in Instances : Write(n, SendBatches, AllResponses)

SpecSend == InitSend /\ [][NextSend]_vars

----------------------------------------------------------------------------
(* Properties of the sanitization (SpecSanitize).                          *)

Sanitized == spc = "twice"

\* C5 as claimed: sanitize(sanitize(s)) = sanitize(s) for every s, and
\* sanitize(s) holds none of "/", space, "%", ":", backslash, "[", "]", ".", "_".
C5_IdempotentAndClean ==
    Sanitized =>
        /\ twice = once
        /\ Chars(once) \cap {"/", " ", "%", ":", "\\", "[", "]", ".", "_"} = {}

\* C5 as amended: sanitize(s) holds none of "/", space, "%", ":", backslash,
\* "[", "]", "."; it holds "_" exactly when s holds "/", ":" or backslash, and
\* sanitize(sanitize(s)) = sanitize(s) exactly when s holds none of these.
C5_CleanButUnderscore ==
    Sanitized =>
        LET separators == Chars(str) \cap {"/", ":", "\\"}
        IN /\ Chars(once) \cap {"/", " ", "%", ":", "\\", "[", "]", "."} = {}
           /\ ("_" \in Chars(once)) <=> (separators # {})
           /\ (twice = once) <=> (separators = {})

\* C5 witness: a string with "/" and "." has been sanitized twice; the first
\* result holds "_" and the second differs from it
C5_Witness ==
    /\ Sanitized
    /\ {"/", "."} \subseteq Chars(str)
    /\ "_" \in Chars(once)
    /\ twice # once

----------------------------------------------------------------------------
(* Properties of sendData (SpecSend).                                      *)

\* the last call was a Write whose HTTP exchange completed
Completed == last.op = "Write" /\ last.posts = 1 /\ last.net.ok

\* the answer is a status of 200..209 with a JSON body whose error is empty
\* and whose status is "ok"
Success(net) ==
    /\ net.ok
    /\ net.StatusCode \in 200..209
    /\ net.body.valid
    /\ net.body.error = ""
    /\ net.body.status = "ok"

\* C6: a send whose HTTP exchange completes returns nil if and only if the
\* status is within 200..209, the body parses, its error field is empty and
\* its status field is "ok"; with such a status and a parsed body, a
\* non-empty error field gives the error that carries the field's text.
C6_SuccessIffOkBody ==
    Completed =>
        /\ (last.err = Nil) <=> Success(last.net)
        /\ (/\ last.net.StatusCode \in 200..209
            /\ last.net.body.valid
            /\ last.net.body.error # "")
           => last.err = Err("NewRelic error: %s\n", 0, last.net.body.error)

\* C6 witness: status 200 with a body whose error is set and whose status
\* is "ok" has been answered with the error carrying the message
C6_Witness ==
    /\ Completed
    /\ last.net.StatusCode = 200
    /\ last.net.body = Body("force error", "ok")
    /\ last.err.text = "force error"

\* C7: outside 200..209 the error is decided by the status code alone,
\* whatever the body: 400, 404, 405 the version-mismatch error, 403 the
\* authentication error, 413 the payload-too-large error, 500, 502, 503, 504
\* the endpoint-unavailable error, every other code the bad-status error.
C7_StatusDecidesError ==
    (Completed /\ last.net.StatusCode \notin 200..209) =>
        LET code == last.net.StatusCode
        IN /\ code \in {400, 404, 405}
                => last.err = Err("Status %d: maybe update agent", code, "")
           /\ code = 403
                => last.err.fmt
                     = "Authentication error (no license key header, or invalid license key)."
           /\ code = 413
                => last.err.fmt
                     = "Request entity too large: Too many metrics were sent in one request"
           /\ code \in {500, 502, 503, 504}
                => last.err = Err("Status %d: Newrelic API not available", code, "")
           /\ code \notin {400, 403, 404, 405, 413, 500, 502, 503, 504}
                => last.err = Err("received bad status code: %d\n", code, "")
           /\ last.err.text = ""

\* C7 witness: status 403 with a well-formed {"status": "ok"} body has been
\* answered with the authentication error
C7_Witness ==
    /\ Completed
    /\ last.net.StatusCode = 403
    /\ last.net.body = Body("", "ok")
    /\ last.err # Nil

----------------------------------------------------------------------------
(* Properties of Connect and Write (Spec).                                 *)

\* the step is a Connect that returns an error
ConnectFails == last'.op = "Connect" /\ last'.err # Nil

\* the step is a Write
Writes == last'.op = "Write"

\* C8 as claimed: a Connect that fails leaves the client's URL, guid and HTTP
\* client and the agent identity exactly as they were.
C8_FailedConnectKeepsNothing ==
    [][ConnectFails => clients' = clients /\ request' = request]_vars

\* C8 as amended: a Connect that fails does no network activity and leaves
\* the agent identity, the licence and the other instances as they were; on
\* an empty licence the URL has been defaulted if it was empty and guid and
\* HTTP client are as before; on a host name failure URL and guid have been
\* defaulted if empty and the HTTP client is set.
C8_FailedConnectKeepsDefaults ==
    [][ConnectFails =>
          LET n == last'.n
              url == IF clients[n].URL = "" THEN newrelic_api ELSE clients[n].URL
              guid == IF clients[n].GUID = "" THEN default_guid ELSE clients[n].GUID
          IN /\ request' = request
             /\ connected' = connected
             /\ last'.posts = 0
             /\ \A o \in Instances \ {n} : clients'[o] = clients[o]
             /\ clients'[n] =
                  IF clients[n].License = ""
                  THEN [clients[n] EXCEPT !.URL = url]
                  ELSE [clients[n] EXCEPT !.URL = url, !.GUID = guid, !.client = TRUE]
    ]_vars

\* C8 witness: a Connect has failed on an instance without licence whose URL
\* is now the default one
C8_Witness ==
    /\ last.op = "Connect"
    /\ last.err # Nil
    /\ clients[last.n].License = ""
    /\ clients[last.n].URL = newrelic_api
    /\ ~clients[last.n].client

\* C9 as claimed: a Write with a non-empty batch makes exactly one POST.
C9_ExactlyOnePost ==
    (last.op = "Write" /\ Len(last.batch) > 0) => last.posts = 1

\* C9 as amended: a Write with a non-empty batch makes one POST when the
\* request serializes and the URL parses, and none otherwise; it returns nil
\* exactly when that one POST succeeded, and an error in every other case; a
\* Write with an empty batch makes no POST, returns nil and changes nothing.
C9_AtMostOnePost ==
    [][Writes =>
          IF Len(last'.batch) = 0
          THEN /\ last'.posts = 0
               /\ last'.err = Nil
               /\ <<clients, request, connected>>' = <<clients, request, connected>>
          ELSE /\ last'.posts =
                    IF MarshalOK(request') /\ URLParses(clients[last'.n].URL)
                    THEN 1 ELSE 0
               /\ (last'.err = Nil) <=> (last'.posts = 1 /\ Success(last'.net))
               /\ clients' = clients
    ]_vars

\* C9 witness: a Write with a non-empty batch has returned an error without
\* any POST
C9_Witness ==
    /\ last.op = "Write"
    /\ Len(last.batch) > 0
    /\ last.posts = 0
    /\ last.err # Nil

\* C10: the components POSTed by a Write are the components BuildComponents
\* yields for that call's batch alone, whatever earlier calls on any
\* instance left in the package-level request, and Write leaves the agent
\* identity as it was.
C10_PayloadIsThisBatch ==
    [][Writes =>
          /\ request'.Agent = request.Agent
          /\ last'.posts = 1 =>
                last'.sent.body.components \in
                    {ComponentsJSON(cs) :
                        cs \in BuildComponents(clients[last'.n].GUID,
                                               request.Agent.Host, last'.batch)}
    ]_vars

\* C10 witness: instance 2 has POSTed a one-sample batch while the
\* package-level request held the two components of an earlier Write
C10_Witness ==
    /\ last.op = "Write"
    /\ last.posts = 1
    /\ last.n = 2
    /\ Len(last.stale) = 2
    /\ Len(last.batch) = 1
    /\ Len(last.sent.body.components) = 1
    /\ last.stale[1].GUID # clients[2].GUID

====
